---- MODULE Spec2Model ----
(***************************************************************************)
(* A model of wavetable/merge.py: the spectral merge of instrument wave    *)
(* sequences (Merge.__init__, Merge._merge_waves, Merge.merge_instrs), the *)
(* deduplication Merge.combine, and the circular-correlation aligner       *)
(* (correlate, correlate_offset, align_waves).                             *)
(*                                                                         *)
(* Numbers are exact.  A complex number is a pair <<re, im>> of integers;  *)
(* the discrete Fourier transform is computed exactly for lengths that     *)
(* divide 4, where every twiddle factor is a power of -i.  Python's        *)
(* 0-based sequences are TLA+ 1-based sequences: element i of the source   *)
(* is element i + 1 here.                                                  *)
(***************************************************************************)
EXTENDS Integers, Sequences, FiniteSets

VARIABLES
    \* ---- Merge object and one merge_instrs call
    self,            \* the Merge instance's fields, or "None" before __init__
    instrs,          \* merge_instrs argument: sequence of Instr records
    nsamp,           \* merge_instrs argument
    transfer,        \* merge_instrs argument: name of the transfer callable
    i,               \* merge_instrs loop variable (frames merged so far)
    length,          \* merge_instrs local
    merged_waveseq,  \* merge_instrs local
    calls,           \* trace of the calls made by the merge_instrs run
    ret,             \* what merge_instrs returned or raised
    pc,              \* position of the merge program
    \* ---- Merge.combine
    waveseq,         \* combine argument
    minimal_waveseq, \* combine local (keys of wave2idx, in insertion order)
    mml,             \* combine local
    combine_ret,     \* what combine returned
    \* ---- correlation aligner
    aw_waveseq,      \* argument of align_waves; its first two waves are
                     \* the (fixed, sweep) arguments of correlate_offset
    co_ret,          \* what correlate_offset returned or raised
    aw_ret,          \* what align_waves returned or raised
    \* ---- per-harmonic phasor merge (body of the loop of _merge_waves)
    coeffs,          \* one tuple of zip_longest: a phasor per source
    weight,          \* transfer(f) for that harmonic
    outs             \* the phasor appended to outs, per Merge configuration

mergeVars   == <<self, instrs, nsamp, transfer, i, length, merged_waveseq,
                 calls, ret, pc>>
combineVars == <<waveseq, minimal_waveseq, mml, combine_ret>>
alignVars   == <<aw_waveseq, co_ret, aw_ret>>
phasorVars  == <<coeffs, weight, outs>>
vars        == <<mergeVars, combineVars, alignVars, phasorVars>>

(***************************************************************************)
(* Bounds of the model.                                                    *)
(***************************************************************************)
MaxFrames == 2      \* longest instrument wave sequence
MaxInstrs == 2      \* most instruments in one merge_instrs call
MaxSeqLen == 5      \* longest wave sequence handed to combine
MaxMag    == 2      \* largest |re|, |im| of a phasor handed to the merge

Samples  == {-1, 0, 1}         \* sample values of the correlated waves
WaveLens == {1, 2, 4}          \* lengths with an exact transform

Pending == [state |-> "pending"]   \* a call that has not been made yet
None    == "None"              \* Python's None

(***************************************************************************)
(* A component that a specification does not exercise stays idle.          *)
(***************************************************************************)
MergeIdle ==
    /\ self = None /\ instrs = <<>> /\ nsamp = 0 /\ transfer = None
    /\ i = 0 /\ length = 0 /\ merged_waveseq = <<>> /\ calls = <<>>
    /\ ret = Pending /\ pc = "idle"

CombineIdle ==
    /\ waveseq = <<>> /\ minimal_waveseq = <<>> /\ mml = <<>>
    /\ combine_ret = Pending

AlignIdle == aw_waveseq = <<>> /\ co_ret = Pending /\ aw_ret = Pending

PhasorIdle == coeffs = <<>> /\ weight = 0 /\ outs = Pending

(***************************************************************************)
(* Exact arithmetic.                                                       *)
(***************************************************************************)
AbsInt(a) == IF a < 0 THEN -a ELSE a

Min2(a, b) == IF a <= b THEN a ELSE b

RECURSIVE GcdNat(_, _)
GcdNat(a, b) == IF b = 0 THEN a ELSE GcdNat(b, a % b)

Gcd(a, b) == GcdNat(AbsInt(a), AbsInt(b))

IsSquare(n) == n >= 0 /\ \E r \in 0..n : r * r = n

ISqrt(n) == CHOOSE r \in 0..n : r * r = n

\* an explicit tuple of the n elements of f (element k computed once)
MkSeq(f, n) == SubSeq(f, 1, n)

RECURSIVE SumSeq(_)
SumSeq(s) == IF s = <<>> THEN 0 ELSE Head(s) + SumSeq(Tail(s))

\* complex numbers <<re, im>>
CZero == <<0, 0>>
CAdd(a, b) == <<a[1] + b[1], a[2] + b[2]>>
CMul(a, b) == <<a[1] * b[1] - a[2] * b[2], a[1] * b[2] + a[2] * b[1]>>
CConj(a) == <<a[1], -a[2]>>
CScale(a, k) == <<a[1] * k, a[2] * k>>

RECURSIVE CSum(_)
CSum(s) == IF s = <<>> THEN CZero ELSE CAdd(Head(s), CSum(Tail(s)))

\* (-i)^e, the twiddle factor exp(-2 pi i e / 4)
MinusIPow(e) ==
    CASE e % 4 = 0 -> <<1, 0>>
      [] e % 4 = 1 -> <<0, -1>>
      [] e % 4 = 2 -> <<-1, 0>>
      [] e % 4 = 3 -> <<0, 1>>

\* exp(-2 pi i e / n) for n in {1, 2, 4}
Twiddle(n, e) == MinusIPow((4 \div n) * e)

(***************************************************************************)
(* numpy.fft on sequences whose length divides 4.                          *)
(***************************************************************************)
\* fft(x)[k] = sum_n x[n] exp(-2 pi i n k / N), x a sequence of complex
fft(x) ==
    LET n == Len(x)
    IN  MkSeq([k \in 1..n |->
            CSum(MkSeq([m \in 1..n |->
                    CMul(x[m], Twiddle(n, (m - 1) * (k - 1)))], n))], n)

\* ifft(X)[n] = (1/N) sum_k X[k] exp(+2 pi i n k / N)
ifft(x) ==
    LET n == Len(x)
        s(m) == CSum(MkSeq([k \in 1..n |->
                    CMul(x[k], CConj(Twiddle(n, (m - 1) * (k - 1))))], n))
    IN  MkSeq([m \in 1..n |-> <<s(m)[1] \div n, s(m)[2] \div n>>], n)

\* a real sequence as a complex one
AsComplex(w) == MkSeq([m \in 1..Len(w) |-> <<w[m], 0>>], Len(w))

\* np.fft.rfft: the first N div 2 + 1 coefficients of the transform
rfft(w) == SubSeq(fft(AsComplex(w)), 1, (Len(w) \div 2) + 1)

\* np.argmax: the first index (0-based) of the largest element
argmax(s) ==
    (CHOOSE k \in 1..Len(s) :
        /\ \A j \in 1..Len(s) : s[j] <= s[k]
        /\ \A j \in 1..(k - 1) : s[j] < s[k]) - 1

\* np.roll(wave, offset): element n moves to (n + offset) mod N
roll(wave, offset) ==
    LET n == Len(wave)
    IN  MkSeq([m \in 1..n |-> wave[((m - 1 - offset) % n) + 1]], n)

(***************************************************************************)
(* Exact reals.  A rational is <<num, den>> in lowest terms, den > 0.  A   *)
(* magnitude is [rad |-> FALSE, q |-> r], the rational r, or               *)
(* [rad |-> TRUE, q |-> r], the square root of a rational r that is not    *)
(* the square of a rational.                                               *)
(***************************************************************************)
Rat(n, d) == LET g == Gcd(n, d) IN <<n \div g, d \div g>>

Rational(r) == [rad |-> FALSE, q |-> r]

\* np.sqrt of a non-negative rational
Sqrt(r) ==
    IF IsSquare(r[1]) /\ IsSquare(r[2])
    THEN [rad |-> FALSE, q |-> <<ISqrt(r[1]), ISqrt(r[2])>>]
    ELSE [rad |-> TRUE, q |-> r]

\* a magnitude times a non-negative integer
Times(x, t) ==
    IF x.rad THEN Sqrt(Rat(x.q[1] * t * t, x.q[2]))
    ELSE Rational(Rat(x.q[1] * t, x.q[2]))

\* np.abs of a complex number whose modulus is an integer
Abs(c) == ISqrt(c[1] * c[1] + c[2] * c[2])

AbsAll(cs) == MkSeq([k \in 1..Len(cs) |-> Abs(cs[k])], Len(cs))

\* np.mean of a sequence of real numbers
mean(arr) == Rational(Rat(SumSeq(arr), Len(arr)))

\* rms (lines 17-21): square, mean, root
rms(arr) ==
    LET square == MkSeq([k \in 1..Len(arr) |-> arr[k] * arr[k]], Len(arr))
    IN  Sqrt(mean(square).q)

\* the avg_func a Merge was built with, applied
AvgFunc(name, arr) == IF name = "rms" THEN rms(arr) ELSE mean(arr)

\* np.angle of the mean of the phasors, as the direction of their sum: the
\* integer vector of smallest length pointing that way; np.angle(0) is 0,
\* the direction of the positive real axis.
Direction(c) ==
    IF c = CZero THEN <<1, 0>>
    ELSE LET g == Gcd(c[1], c[2]) IN <<c[1] \div g, c[2] \div g>>

\* np.mean(coeffs) * transfer(f): the complex (re + im j) / den, in lowest
\* terms
MeanTimes(cs, t) ==
    LET sum == CSum(cs)
        g == Gcd(Gcd(sum[1] * t, sum[2] * t), Len(cs))
    IN  [form |-> "rect", re |-> (sum[1] * t) \div g,
         im |-> (sum[2] * t) \div g, den |-> Len(cs) \div g]

(***************************************************************************)
(* The Merge configuration (lines 116-128).                                *)
(***************************************************************************)
MergeStyle == {"NO_PHASE", "PHASE"}

\* values a caller can hand to Merge(...)
AvgFuncs    == {"np.mean", "rms"}
StyleArgs   == MergeStyle \cup {"bogus"}
ScalingArgs == {"local", "global", "bogus"}

\* Merge.__init__: stores its three arguments
MergeNew(avg_func, merge_style, scaling) ==
    [avg_func |-> avg_func, merge_style |-> merge_style, scaling |-> scaling]

\* A variant of the loop body below that takes the magnitude of the mean
\* phasor where the code takes the avg_func of the magnitudes.
MergePhasor_AbsOfMean(slf, cs, t) ==
    IF slf.merge_style = "NO_PHASE"
    THEN [form |-> "polar",
          mag |-> Times(Sqrt(Rat(CSum(cs)[1] * CSum(cs)[1]
                                   + CSum(cs)[2] * CSum(cs)[2],
                                 Len(cs) * Len(cs))), t),
          arg |-> Direction(CSum(cs))]
    ELSE MeanTimes(cs, t)

\* One pass of the loop of _merge_waves (lines 136-141): the phasor appended
\* to outs for the tuple coeffs, t being transfer(f).
MergePhasor(slf, cs, t) ==
    IF slf.merge_style = "NO_PHASE"
    THEN [form |-> "polar",
          mag |-> Times(AvgFunc(slf.avg_func, AbsAll(cs)), t),
          arg |-> Direction(CSum(cs))]
    ELSE MeanTimes(cs, t)

\* the modulus of a phasor of outs
Magnitude(out) ==
    IF out.form = "polar" THEN out.mag
    ELSE Sqrt(Rat(out.re * out.re + out.im * out.im, out.den * out.den))

(***************************************************************************)
(* Correlation (merge.py, "# Correlation").                                *)
(* A call's outcome is a returned value or a raised exception.             *)
(***************************************************************************)
Return(v) == [state |-> "returned", value |-> v]
Raise(e)  == [state |-> "raised", exc |-> e]
Returned(r) == r.state = "returned"
Raised(r)   == r.state = "raised"

\* The raise statement of correlate_offset (line 219).  Its message is an
\* f-string naming `i`, which is neither a parameter nor a local of
\* correlate_offset: the exception that leaves the function is the ValueError
\* if the star-import supplies an `i`, and a NameError otherwise.  Either way
\* the call ends here by raising and returns no offset.
PhaseInversionRaise == "raise at correlate_offset line 219"
ShapeError          == "ValueError: incorrect dimensions"

\* correlate: ifft(fft(fixed) * fft(sweep).conj()).real, after the shape check
correlate(fixed, sweep) ==
    IF Len(fixed) # Len(sweep)
    THEN Raise(ShapeError)
    ELSE LET f == fft(AsComplex(fixed))
             s == fft(AsComplex(sweep))
             p == MkSeq([k \in 1..Len(f) |-> CMul(f[k], CConj(s[k]))], Len(f))
             c == ifft(p)
         IN  Return(MkSeq([k \in 1..Len(c) |-> c[k][1]], Len(c)))

AbsSeq(s) == MkSeq([k \in 1..Len(s) |-> AbsInt(s[k])], Len(s))

\* A variant of correlate_offset whose consistency check is inverted.
correlate_offset_FlippedCheck(fixed, sweep) ==
    LET corrs == correlate(fixed, sweep)
    IN  IF Raised(corrs) THEN corrs
        ELSE IF argmax(AbsSeq(corrs.value)) = argmax(corrs.value)
             THEN Raise(PhaseInversionRaise)
             ELSE Return(argmax(corrs.value))

\* correlate_offset (lines 214-222)
correlate_offset(fixed, sweep) ==
    LET corrs == correlate(fixed, sweep)
    IN  IF Raised(corrs) THEN corrs
        ELSE IF argmax(AbsSeq(corrs.value)) # argmax(corrs.value)
             THEN Raise(PhaseInversionRaise)
             ELSE Return(argmax(corrs.value))

\* the loop of align_waves over waveseq[1:], out being the waves aligned so far
RECURSIVE AlignLoop(_, _)
AlignLoop(out, rest) ==
    IF rest = <<>> THEN Return(out)
    ELSE LET offset == correlate_offset(out[Len(out)], Head(rest))
         IN  IF Raised(offset) THEN offset
             ELSE AlignLoop(Append(out, roll(Head(rest), offset.value)),
                            Tail(rest))

\* A variant of align_waves (on two waves) that rolls by -offset.
align_waves_NegRoll(ws) ==
    LET offset == correlate_offset(ws[1], ws[2])
    IN  IF Raised(offset) THEN offset
        ELSE Return(<<ws[1], roll(ws[2], -offset.value)>>)

\* align_waves (lines 225-232)
align_waves(ws) == AlignLoop(<<ws[1]>>, Tail(ws))

(***************************************************************************)
(* Collaborators of the merge that live in other modules of the package.   *)
(* A waveform that leaves the inverse transform is kept as the record of   *)
(* the call that made it, [op |-> "irfft", spectrum, nsamp]: a waveform of *)
(* nsamp samples.  rescale_quantize returns a structure of the shape of    *)
(* its argument: a waveform w becomes [op |-> "rescale_quantize", of |-> w,*)
(* over |-> "wave"], and each waveform w of a sequence becomes             *)
(* [op |-> "rescale_quantize", of |-> w, over |-> "sequence"].             *)
(***************************************************************************)
\* fourier.irfft(outs, nsamp)
irfft(spectrum, ns) == [op |-> "irfft", spectrum |-> spectrum, nsamp |-> ns]

\* gauss.rescale_quantize(wave_out)
RescaleWave(w) == [op |-> "rescale_quantize", of |-> w, over |-> "wave"]

\* gauss.rescale_quantize(merged_waveseq)
RescaleSeq(ws) ==
    MkSeq([k \in 1..Len(ws) |->
              [op |-> "rescale_quantize", of |-> ws[k], over |-> "sequence"]],
          Len(ws))

\* transfer.Unity(): weight 1 at every harmonic
Transfer(name, f) == 1

(***************************************************************************)
(* _get (lines 49-65) and the harmonic expansion of merge_instrs.          *)
(***************************************************************************)
\* A variant of _get that pads with the first element.
_get_First(ws, n) == IF n >= Len(ws) THEN ws[1] ELSE ws[n + 1]

\* _get: the last element past the end
_get(ws, n) == IF n >= Len(ws) THEN ws[Len(ws)] ELSE ws[n + 1]

\* _get on an empty sequence: n >= 0 = len, and waveseq[-1] raises
GetRaises(ws) == ws = <<>>

\* npcat([wave] * freq)
RECURSIVE Repeat(_, _)
Repeat(wave, freq) == IF freq <= 0 THEN <<>> ELSE wave \o Repeat(wave, freq - 1)

ScaleWave(wave, amp) == MkSeq([m \in 1..Len(wave) |-> wave[m] * amp], Len(wave))

\* lines 159-160: one instrument's contribution to frame n
HarmonicWave(instr, n) ==
    ScaleWave(Repeat(_get(instr.waveseq, n), instr.freq), instr.amp)

\* lines 155-161: harmonic_waves of frame n
HarmonicWaves(ins, n) ==
    MkSeq([k \in 1..Len(ins) |-> HarmonicWave(ins[k], n)], Len(ins))

SetMax(S) == CHOOSE x \in S : \A y \in S : y <= x
SetMin(S) == CHOOSE x \in S : \A y \in S : x <= y

\* A variant of the frame count that truncates to the shortest sequence.
FrameCount_Shortest(ins) == SetMin({Len(ins[k].waveseq) : k \in 1..Len(ins)})

\* line 151: max(len(instr.waveseq) for instr in instrs), instrs non-empty
FrameCount(ins) == SetMax({Len(ins[k].waveseq) : k \in 1..Len(ins)})

(***************************************************************************)
(* Merge._merge_waves (lines 130-147).                                     *)
(***************************************************************************)
\* A variant that zips as zip does: it stops at the shortest spectrum.
ZipLongest_Shortest(ffts) ==
    LET n == SetMin({Len(ffts[k]) : k \in 1..Len(ffts)})
    IN  MkSeq([f \in 1..n |->
            MkSeq([k \in 1..Len(ffts) |-> ffts[k][f]], Len(ffts))], n)

\* itertools.zip_longest(*ffts, fillvalue=0j): one tuple per harmonic of the
\* longest spectrum
ZipLongest(ffts) ==
    LET n == SetMax({Len(ffts[k]) : k \in 1..Len(ffts)})
    IN  MkSeq([f \in 1..n |->
            MkSeq([k \in 1..Len(ffts) |->
                IF f <= Len(ffts[k]) THEN ffts[k][f] ELSE CZero], Len(ffts))],
            n)

\* A variant of _merge_waves that rescales whatever the scaling.
_merge_waves_AlwaysRescale(slf, waves, ns, tr) ==
    LET ffts == MkSeq([k \in 1..Len(waves) |-> rfft(waves[k])], Len(waves))
        zipped == ZipLongest(ffts)
        spectrum == MkSeq([f \in 1..Len(zipped) |->
                        MergePhasor(slf, zipped[f], Transfer(tr, f - 1))],
                        Len(zipped))
        wave_out == irfft(spectrum, ns)
    IN  [coeffs |-> zipped,
         made |-> <<"irfft", "rescale_quantize">>,
         out |-> RescaleWave(wave_out)]

\* out is the returned wave; coeffs are the tuples of the loop, made the
\* calls to the transform and the rescaler, in order
_merge_waves(slf, waves, ns, tr) ==
    LET ffts == MkSeq([k \in 1..Len(waves) |-> rfft(waves[k])], Len(waves))
        zipped == ZipLongest(ffts)
        spectrum == MkSeq([f \in 1..Len(zipped) |->
                        MergePhasor(slf, zipped[f], Transfer(tr, f - 1))],
                        Len(zipped))
        wave_out == irfft(spectrum, ns)
    IN  IF slf.scaling = "local"
        THEN [coeffs |-> zipped,
              made |-> <<"irfft", "rescale_quantize">>,
              out |-> RescaleWave(wave_out)]
        ELSE [coeffs |-> zipped, made |-> <<"irfft">>, out |-> wave_out]

(***************************************************************************)
(* Merge.combine (lines 171-190).  wave2idx is an OrderedDict whose keys   *)
(* are the waves in insertion order and whose values are 0, 1, 2, ...: it  *)
(* is kept as the sequence of its keys, the value of a key being its       *)
(* position less one.                                                      *)
(***************************************************************************)
InKeys(keys, wave) == \E k \in 1..Len(keys) : keys[k] = wave

\* wave2idx[wave]
IndexOf(keys, wave) == (CHOOSE k \in 1..Len(keys) : keys[k] = wave) - 1

\* the loop of lines 180-184: [keys, mml] after the waves of rest
RECURSIVE CombineLoop(_, _, _)
CombineLoop(keys, idxs, rest) ==
    IF rest = <<>> THEN [keys |-> keys, mml |-> idxs]
    ELSE LET wave == Head(rest)
             keys2 == IF InKeys(keys, wave) THEN keys ELSE Append(keys, wave)
         IN  CombineLoop(keys2, Append(idxs, IndexOf(keys2, wave)), Tail(rest))

\* combine: the locals when the function ends and what it returns.  The
\* function prints minimal_waveseq and mml and ends without a return
\* statement, so the caller receives None.
combine(ws) ==
    LET end == CombineLoop(<<>>, <<>>, ws)
    IN  [minimal_waveseq |-> end.keys, mml |-> end.mml, returns |-> None]

(***************************************************************************)
(* combine as a program: a caller holds a wave sequence and calls combine. *)
(***************************************************************************)
CombineWaves == {<<0, 1>>, <<2, 3>>, <<0, 3>>}

CombineInputs == UNION {[1..n -> CombineWaves] : n \in 0..MaxSeqLen}

InitCombine ==
    /\ waveseq \in CombineInputs
    /\ minimal_waveseq = <<>>
    /\ mml = <<>>
    /\ combine_ret = Pending
    /\ MergeIdle /\ AlignIdle /\ PhasorIdle

Combine ==
    /\ combine_ret = Pending
    /\ LET r == combine(waveseq)
       IN  /\ minimal_waveseq' = r.minimal_waveseq
           /\ mml' = r.mml
           /\ combine_ret' = Return(r.returns)
    /\ UNCHANGED <<waveseq, mergeVars, alignVars, phasorVars>>

NextCombine == Combine

SpecCombine == InitCombine /\ [][NextCombine]_vars

\* m holds each distinct wave of ws once, in first-occurrence order, and idx
\* maps every position of ws to its wave in m
IsDeduplication(ws, m, idx) ==
    /\ \A a \in 1..Len(m) : \A b \in 1..Len(m) : m[a] = m[b] => a = b
    /\ \A a \in 1..Len(m) : \E k \in 1..Len(ws) : ws[k] = m[a]
    /\ \A a \in 1..Len(m) : \A b \in 1..Len(m) :
          a < b => (\E k \in 1..Len(ws) :
                       /\ ws[k] = m[a]
                       /\ \A j \in 1..k : ws[j] # m[b])
    /\ Len(idx) = Len(ws)
    /\ \A k \in 1..Len(ws) :
          /\ idx[k] \in 0..(Len(m) - 1)
          /\ m[idx[k] + 1] = ws[k]

SpecExample == <<<<0, 1>>, <<2, 3>>, <<0, 1>>, <<0, 1>>, <<2, 3>>>>

\* C2: combine(ws) returns the pair (minimal_waveseq, indices), where
\* minimal_waveseq holds each distinct wave of ws exactly once in
\* first-occurrence order, indices is as long as ws and
\* minimal_waveseq[indices[i]] = ws[i]; for the example [[0,1],[2,3],[0,1],
\* [0,1],[2,3]] the pair is ([[0,1],[2,3]], [0,1,0,0,1]).
C2_CombineReturnsPair ==
    combine_ret # Pending =>
        /\ Returned(combine_ret)
        /\ combine_ret.value # None
        /\ IsDeduplication(waveseq, combine_ret.value[1], combine_ret.value[2])
        /\ waveseq = SpecExample =>
              combine_ret.value = <<<<<<0, 1>>, <<2, 3>>>>, <<0, 1, 0, 0, 1>>>>

\* What the code does compute: when combine ends, its locals
\* minimal_waveseq and mml are the deduplication of its argument.
CombineLocalsDeduplicate ==
    combine_ret # Pending =>
        /\ IsDeduplication(waveseq, minimal_waveseq, mml)
        /\ waveseq = SpecExample =>
              /\ minimal_waveseq = <<<<0, 1>>, <<2, 3>>>>
              /\ mml = <<0, 1, 0, 0, 1>>

(***************************************************************************)
(* The aligner as a program: a caller holds a two-wave sequence of equal   *)
(* length waves and calls correlate_offset on the pair and align_waves on  *)
(* the sequence.                                                           *)
(***************************************************************************)
WavesOfLen(n) == [1..n -> Samples]

AlignInputs ==
    UNION {{<<a, b>> : a \in WavesOfLen(n), b \in WavesOfLen(n)} : n \in WaveLens}

InitAlign ==
    /\ aw_waveseq \in AlignInputs
    /\ co_ret = Pending
    /\ aw_ret = Pending
    /\ MergeIdle /\ CombineIdle /\ PhasorIdle

CorrelateOffset ==
    /\ co_ret = Pending
    /\ co_ret' = correlate_offset(aw_waveseq[1], aw_waveseq[2])
    /\ UNCHANGED <<aw_waveseq, aw_ret, mergeVars, combineVars, phasorVars>>

AlignWaves ==
    /\ aw_ret = Pending
    /\ aw_ret' = align_waves(aw_waveseq)
    /\ UNCHANGED <<aw_waveseq, co_ret, mergeVars, combineVars, phasorVars>>

NextAlign == CorrelateOffset \/ AlignWaves

SpecAlign == InitAlign /\ [][NextAlign]_vars

Neg(w) == MkSeq([m \in 1..Len(w) |-> -w[m]], Len(w))

IsConstant(w) == \A m \in 1..Len(w) : w[m] = w[1]

\* some circular rotation of w is the negation of w, and w is not all-zero
IsAntiPeriodic(w) ==
    /\ \E m \in 1..Len(w) : w[m] # 0
    /\ \E k \in 0..(Len(w) - 1) : roll(w, k) = Neg(w)

\* The circular cross-correlation by its definition, without transforms:
\* c[k] = sum_n fixed[(n + k) mod N] * sweep[n].
CircularCorrelation(a, b) ==
    LET n == Len(a)
    IN  MkSeq([k \in 1..n |->
            SumSeq(MkSeq([m \in 1..n |->
                a[((m - 1 + k - 1) % n) + 1] * b[m]], n))], n)

Fixed == aw_waveseq[1]
Sweep == aw_waveseq[2]

IsRotationOfFixed == \E k \in 0..(Len(Fixed) - 1) : Sweep = roll(Fixed, k)

\* C7 as stated: for ANY waveform w1 and shift k, align_waves([w1,
\* rotate(w1, k)]) returns [w1, w1] without error, and correlate_offset(w, w)
\* is 0.
C7_AnyRotationRealigned ==
    /\ (aw_ret # Pending /\ IsRotationOfFixed)
          => aw_ret = Return(<<Fixed, Fixed>>)
    /\ (co_ret # Pending /\ Sweep = Fixed) => co_ret = Return(0)

\* C7 (amended): for any waveform w1 none of whose circular rotations is its
\* negation -w1 (the all-zero wave aside) and any shift k, align_waves([w1,
\* rotate(w1, k)]) returns [w1, w1] without error; and correlate_offset(w, w)
\* is 0 for any waveform w.
C7_RotationRealigned ==
    /\ (aw_ret # Pending /\ IsRotationOfFixed /\ ~IsAntiPeriodic(Fixed))
          => aw_ret = Return(<<Fixed, Fixed>>)
    /\ (co_ret # Pending /\ Sweep = Fixed) => co_ret = Return(0)

\* a wave of four samples rotated by a shift that changes it was rotated back
C7_Witness ==
    /\ aw_ret # Pending /\ Returned(aw_ret)
    /\ Len(Fixed) = 4 /\ IsRotationOfFixed /\ Sweep # Fixed
    /\ ~IsAntiPeriodic(Fixed)
    /\ aw_ret.value = <<Fixed, Fixed>>

(***************************************************************************)
(* The per-harmonic merge as a program: a Merge is built, a tuple of       *)
(* phasors (one per source) and a transfer weight are chosen, and the body *)
(* of the loop of _merge_waves is run on them.                             *)
(***************************************************************************)
Phasors ==
    {c \in (-MaxMag..MaxMag) \X (-MaxMag..MaxMag) :
        IsSquare(c[1] * c[1] + c[2] * c[2])}

PhasorTuples == UNION {[1..n -> Phasors] : n \in 1..MaxInstrs}

Weights == {1, 2}

InitPhasor ==
    /\ self \in {MergeNew(a, m, "local") : a \in AvgFuncs, m \in MergeStyle}
    /\ coeffs \in PhasorTuples
    /\ weight \in Weights
    /\ outs = Pending
    /\ instrs = <<>> /\ nsamp = 0 /\ transfer = None
    /\ i = 0 /\ length = 0 /\ merged_waveseq = <<>> /\ calls = <<>>
    /\ ret = Pending /\ pc = "idle"
    /\ CombineIdle /\ AlignIdle

MergeTuple ==
    /\ outs = Pending
    /\ outs' = Return(MergePhasor(self, coeffs, weight))
    /\ UNCHANGED <<coeffs, weight, mergeVars, combineVars, alignVars>>

NextPhasor == MergeTuple

SpecPhasor == InitPhasor /\ [][NextPhasor]_vars

\* the three strategies of the specification, in the code's terms
IsSUM   == self.merge_style = "PHASE"
IsAMP   == self.merge_style = "NO_PHASE" /\ self.avg_func = "np.mean"
IsPOWER == self.merge_style = "NO_PHASE" /\ self.avg_func = "rms"

\* two phasors of equal magnitude and opposite phase, transfer weight 1
OppositePair ==
    /\ Len(coeffs) = 2 /\ weight = 1
    /\ coeffs[1] # CZero
    /\ coeffs[2] = CScale(coeffs[1], -1)

\* C9: for two source phasors of equal magnitude m and opposite phase and
\* transfer weight 1, SUM (merge_style PHASE) gives a phasor of magnitude 0,
\* AMP (NO_PHASE with np.mean) and POWER (NO_PHASE with rms) each give one of
\* magnitude m, and every one of the three returns a phasor (none raises).
C9_StrategyDistinction ==
    (outs # Pending /\ OppositePair) =>
        /\ Returned(outs)
        /\ IsSUM => Magnitude(outs.value) = Rational(<<0, 1>>)
        /\ (IsAMP \/ IsPOWER) =>
              Magnitude(outs.value) = Rational(<<Abs(coeffs[1]), 1>>)

\* the POWER strategy has merged 2j and -2j into a phasor of magnitude 2
C9_Witness ==
    /\ outs # Pending /\ OppositePair /\ IsPOWER
    /\ coeffs[1] = <<0, 2>>
    /\ Magnitude(outs.value) = Rational(<<2, 1>>)

(***************************************************************************)
(* The merge as a program: a caller builds a Merge, calls merge_instrs     *)
(* with a list of instruments and nsamp (transfer left at its default),    *)
(* and the loop of merge_instrs runs frame by frame.                       *)
(***************************************************************************)
\* frame j (1-based) of the wave sequences the caller loads
FrameLib(j) == <<j, 1 - j>>

WaveSeqOfLen(n) == MkSeq([j \in 1..n |-> FrameLib(j)], n)

\* the (freq, amp) of the instruments the caller builds
FreqAmps == {<<1, 1>>, <<2, 1>>, <<1, 2>>}

Instruments ==
    {[waveseq |-> WaveSeqOfLen(n), freq |-> fa[1], amp |-> fa[2]] :
        n \in 0..MaxFrames, fa \in FreqAmps}

InstrLists == UNION {[1..n -> Instruments] : n \in 0..MaxInstrs}

NSamps == {2, 3}

InitMerge ==
    /\ self = None /\ instrs = <<>> /\ nsamp = 0 /\ transfer = None
    /\ i = 0 /\ length = 0 /\ merged_waveseq = <<>> /\ calls = <<>>
    /\ ret = Pending /\ pc = "new"
    /\ CombineIdle /\ AlignIdle /\ PhasorIdle

\* Merge(avg_func, merge_style, scaling): __init__ stores the arguments and
\* checks none of them.  The caller leaves avg_func at its default unless
\* the style is NO_PHASE, the one style that reads it.
Construct ==
    /\ pc = "new"
    /\ \E a \in AvgFuncs, m \in StyleArgs, sc \in ScalingArgs :
          /\ (m = "NO_PHASE" \/ a = "np.mean")
          /\ self' = MergeNew(a, m, sc)
    /\ pc' = "constructed"
    /\ UNCHANGED <<instrs, nsamp, transfer, i, length, merged_waveseq, calls,
                   ret, combineVars, alignVars, phasorVars>>

\* merge_instrs is entered: lines 151-152
CallMergeInstrs ==
    /\ pc = "constructed"
    /\ \E ins \in InstrLists, ns \in NSamps :
          /\ instrs' = ins
          /\ nsamp' = ns
          /\ transfer' = "Unity"
          /\ IF ins = <<>>
             THEN /\ ret' = Raise("ValueError: max() arg is an empty sequence")
                  /\ pc' = "done"
                  /\ length' = length
             ELSE /\ length' = FrameCount(ins)
                  /\ pc' = "loop"
                  /\ ret' = ret
    /\ i' = 0
    /\ merged_waveseq' = <<>>
    /\ UNCHANGED <<self, calls, combineVars, alignVars, phasorVars>>

\* one pass of the loop of lines 154-164
MergeFrame ==
    /\ pc = "loop"
    /\ i < length
    /\ IF \E k \in 1..Len(instrs) : GetRaises(instrs[k].waveseq)
       THEN /\ ret' = Raise("IndexError: list index out of range")
            /\ pc' = "done"
            /\ UNCHANGED <<i, merged_waveseq, calls>>
       ELSE LET harmonic_waves == HarmonicWaves(instrs, i)
                m == _merge_waves(self, harmonic_waves, nsamp, transfer)
            IN  /\ merged_waveseq' = Append(merged_waveseq, m.out)
                /\ calls' = Append(calls,
                      [fn |-> "_merge_waves", frame |-> i,
                       waves |-> harmonic_waves, nsamp |-> nsamp,
                       coeffs |-> m.coeffs, made |-> m.made])
                /\ i' = i + 1
                /\ UNCHANGED <<ret, pc>>
    /\ UNCHANGED <<self, instrs, nsamp, transfer, length, combineVars,
                   alignVars, phasorVars>>

\* lines 166-169, the loop being over.  What rescale_quantize does with an
\* empty sequence is not fixed by its contract: it returns the empty
\* sequence or raises.
FinishMerge ==
    /\ pc = "loop"
    /\ i = length
    /\ \/ /\ self.scaling = "global"
          /\ ret' = Return(RescaleSeq(merged_waveseq))
          /\ calls' = Append(calls, [fn |-> "rescale_quantize"])
       \/ /\ self.scaling = "global"
          /\ merged_waveseq = <<>>
          /\ ret' = Raise("rescale_quantize of an empty sequence")
          /\ calls' = Append(calls, [fn |-> "rescale_quantize"])
       \/ /\ self.scaling # "global"
          /\ ret' = Return(merged_waveseq)
          /\ calls' = calls
    /\ pc' = "done"
    /\ UNCHANGED <<self, instrs, nsamp, transfer, i, length, merged_waveseq,
                   combineVars, alignVars, phasorVars>>

NextMerge == Construct \/ CallMergeInstrs \/ MergeFrame \/ FinishMerge

SpecMerge == InitMerge /\ [][NextMerge]_vars

\* the waveform under the rescaler's wrappers, and how many there are
RECURSIVE RescaleDepth(_)
RescaleDepth(w) ==
    IF w.op = "rescale_quantize" THEN 1 + RescaleDepth(w.of) ELSE 0

RECURSIVE NumSamples(_)
NumSamples(w) == IF w.op = "rescale_quantize" THEN NumSamples(w.of) ELSE w.nsamp

MergeCalls == SelectSeq(calls, LAMBDA e : e.fn = "_merge_waves")
SeqRescales == SelectSeq(calls, LAMBDA e : e.fn = "rescale_quantize")

LongestWaveSeq ==
    CHOOSE n \in 0..(MaxFrames + 1) :
        /\ \E k \in 1..Len(instrs) : Len(instrs[k].waveseq) = n
        /\ \A k \in 1..Len(instrs) : Len(instrs[k].waveseq) <= n

\* the Merge was built with values of the documented enumerations
ValidConfig ==
    self.scaling \in {"local", "global"} /\ self.merge_style \in MergeStyle

Degenerate ==
    \/ instrs = <<>>
    \/ \E k \in 1..Len(instrs) : instrs[k].waveseq = <<>>

\* C1: for a non-empty instrument list whose wave sequences are all
\* non-empty, merge_instrs returns exactly max(len(instr.waveseq)) waves, wave
\* number n being the result of the one _merge_waves call made for frame n
\* with the caller's nsamp, the calls being made in frame order, and every
\* returned wave having nsamp samples.
C1_MergedLength ==
    (pc = "done" /\ ~Degenerate) =>
        LET mc == MergeCalls
        IN  /\ Returned(ret)
            /\ Len(ret.value) = LongestWaveSeq
            /\ Len(mc) = LongestWaveSeq
            /\ \A n \in 1..Len(mc) :
                  /\ mc[n].frame = n - 1
                  /\ mc[n].nsamp = nsamp
                  /\ Len(mc[n].waves) = Len(instrs)
            /\ \A n \in 1..Len(ret.value) : NumSamples(ret.value[n]) = nsamp

\* two instruments of different frame counts were merged to the longer one's
\* count
C1_Witness ==
    /\ pc = "done" /\ ~Degenerate /\ Returned(ret) /\ ValidConfig
    /\ Len(instrs) = 2
    /\ Len(instrs[1].waveseq) = 1 /\ Len(instrs[2].waveseq) = 2
    /\ Len(ret.value) = 2

\* the wave an instrument contributes at frame n when its sequence is
\* clamped to its last frame
Clamped(instr, n) ==
    LET last == Len(instr.waveseq) - 1
        wave == instr.waveseq[Min2(n, last) + 1]
    IN  MkSeq([m \in 1..(Len(wave) * instr.freq) |->
                  wave[((m - 1) % Len(wave)) + 1] * instr.amp],
              Len(wave) * instr.freq)

\* C3: _get(s, n) = s[min(n, len(s) - 1)] for every non-empty s and n >= 0
\* (so a 3-frame sequence queried at 10 gives its frame 2), and in
\* merge_instrs every instrument contributes to frame n the harmonic-expanded,
\* amplitude-scaled wave of its frame min(n, len - 1): past its end, the same
\* wave as at its last frame.
C3_PaddingByRepetition ==
    /\ \A len \in 1..(MaxFrames + 1) :
          LET ws == WaveSeqOfLen(len)
          IN  \A n \in 0..10 : _get(ws, n) = ws[Min2(n, len - 1) + 1]
    /\ LET mc == MergeCalls
       IN  \A e \in 1..Len(mc) : \A k \in 1..Len(instrs) :
              /\ mc[e].waves[k] = Clamped(instrs[k], mc[e].frame)
              /\ mc[e].frame >= Len(instrs[k].waveseq)
                    => mc[e].waves[k] = mc[Len(instrs[k].waveseq)].waves[k]

\* a one-frame instrument of harmonic 2 has contributed to frame 1, past its
\* end, next to a two-frame instrument
C3_Witness ==
    /\ pc = "done" /\ Returned(ret) /\ ValidConfig
    /\ Len(MergeCalls) = 2
    /\ \E k \in 1..Len(instrs) :
          /\ Len(instrs[k].waveseq) = 1
          /\ instrs[k].freq = 2
          /\ MergeCalls[2].waves[k] = MergeCalls[1].waves[k]

\* C4: with scaling 'local' the rescaler is called once per frame, on that
\* frame's wave right after its inverse transform, and never on the
\* sequence; with scaling 'global' it is never called per frame and is called
\* exactly once, on the whole sequence, after the last frame was merged.  In
\* both scopes every returned wave went through the rescaler exactly once.
C4_RescaleScope ==
    /\ (pc \in {"loop", "done"} /\ self.scaling = "local") =>
          /\ \A e \in 1..Len(MergeCalls) :
                MergeCalls[e].made = <<"irfft", "rescale_quantize">>
          /\ SeqRescales = <<>>
    /\ (pc \in {"loop", "done"} /\ self.scaling = "global") =>
          /\ \A e \in 1..Len(MergeCalls) : MergeCalls[e].made = <<"irfft">>
          /\ pc = "loop" => SeqRescales = <<>>
          /\ (pc = "done" /\ Returned(ret)) =>
                /\ Len(SeqRescales) = 1
                /\ calls[Len(calls)].fn = "rescale_quantize"
                /\ Len(MergeCalls) = length
    /\ (pc = "done" /\ Returned(ret) /\ self.scaling \in {"local", "global"}) =>
          \A n \in 1..Len(ret.value) :
             /\ RescaleDepth(ret.value[n]) = 1
             /\ ret.value[n].over
                   = (IF self.scaling = "local" THEN "wave" ELSE "sequence")

\* a two-frame merge with scaling 'global' has returned
C4_Witness ==
    /\ pc = "done" /\ Returned(ret) /\ self.scaling = "global"
    /\ Len(ret.value) = 2
    /\ Len(SeqRescales) = 1

\* C5: a Merge cannot be constructed with an unknown merge strategy or a
\* scaling scope other than 'local' and 'global', so no merge_instrs call
\* runs with one.
C5_InvalidConfigRejected ==
    pc \in {"constructed", "loop", "done"} =>
        /\ self.scaling \in {"local", "global"}
        /\ self.merge_style \in MergeStyle

\* C8: merge_instrs (of a Merge built with the default scaling 'local')
\* called with an empty instrument list, or with an instrument whose wave
\* sequence has no frame, raises and returns nothing.
C8_DegenerateInputRaises ==
    (pc = "done" /\ Degenerate /\ ValidConfig /\ self.scaling = "local")
        => Raised(ret)

\* the spectrum length of instrument k's contribution: rfft of a wave of
\* len(wave) * freq samples
SpectrumLen(instr) == ((Len(instr.waveseq[1]) * instr.freq) \div 2) + 1

\* the phasors of tuple cs that come from a spectrum reaching harmonic f
\* (1-based); the others are the fill value
Reaching(f) == {k \in 1..Len(instrs) : SpectrumLen(instrs[k]) >= f}

\* C10: when the spectra differ in length, the merged spectrum has as many
\* harmonics as the longest one, every tuple handed to the merge statistic
\* holds one phasor per instrument, 0 standing for each instrument whose
\* spectrum does not reach the harmonic, and the average divides by the
\* number of instruments, the absent ones counted.
C10_MissingHarmonicsAreZero ==
    (pc \in {"loop", "done"} /\ ~Degenerate) =>
        \A e \in 1..Len(calls) :
          calls[e].fn = "_merge_waves" =>
            LET c == calls[e].coeffs
                out == merged_waveseq[e]
                spectrum == IF out.op = "irfft" THEN out.spectrum
                            ELSE out.of.spectrum
                longest == SetMax({SpectrumLen(instrs[k]) : k \in 1..Len(instrs)})
                ffts == MkSeq([k \in 1..Len(instrs) |->
                                  rfft(calls[e].waves[k])], Len(instrs))
            IN  /\ Len(c) = longest
                /\ Len(spectrum) = longest
                /\ \A f \in 1..Len(c) :
                      /\ Len(c[f]) = Len(instrs)
                      /\ \A k \in 1..Len(instrs) :
                            c[f][k] = IF k \in Reaching(f)
                                      THEN ffts[k][f]
                                      ELSE CZero
                      /\ LET sumabs == SumSeq(AbsAll(c[f]))
                             sumsq == SumSeq(MkSeq([k \in 1..Len(c[f]) |->
                                         Abs(c[f][k]) * Abs(c[f][k])], Len(c[f])))
                             sum == CSum(c[f])
                             n == Len(instrs)
                         IN  /\ (self.merge_style = "NO_PHASE"
                                   /\ self.avg_func = "np.mean")
                                  => /\ ~spectrum[f].mag.rad
                                     /\ spectrum[f].mag.q[1] * n
                                          = sumabs * spectrum[f].mag.q[2]
                             /\ (self.merge_style = "NO_PHASE"
                                   /\ self.avg_func = "rms")
                                  => Times(spectrum[f].mag, n)
                                        = Sqrt(Rat(sumsq * n, 1))
                             /\ self.merge_style # "NO_PHASE"
                                  => /\ spectrum[f].re * n = sum[1] * spectrum[f].den
                                     /\ spectrum[f].im * n = sum[2] * spectrum[f].den

\* instruments of harmonic 1 and 2 were merged: the second harmonic's tuple
\* holds the fill value for the first instrument and a non-zero phasor for
\* the second
C10_Witness ==
    /\ pc = "done" /\ Returned(ret) /\ ValidConfig /\ Len(instrs) = 2
    /\ instrs[1].freq = 1 /\ instrs[2].freq = 2
    /\ Len(MergeCalls) >= 1
    /\ Len(MergeCalls[1].coeffs) = 3
    /\ MergeCalls[1].coeffs[3][1] = CZero
    /\ MergeCalls[1].coeffs[3][2] # CZero

====
